---- MODULE Spec2Model ----
(***************************************************************************)
(* FusionBridge: the HTTP listener, the task bridge and the host executor  *)
(* of src/fusion_addin/FusionBridge/bridge_server.py.                      *)
(*                                                                         *)
(* Request-handling code runs on the listener side, handlers run on the    *)
(* host thread inside _ExecEventHandler.notify.  The two sides share       *)
(* _task_queue and _task_results only.  Every statement that touches one   *)
(* of the two is a step of its own, so that every interleaving the         *)
(* interpreter allows is a behaviour of the model.                         *)
(***************************************************************************)
EXTENDS Integers, Sequences, FiniteSets, TLC

\* ------------------------------------------------------------------------
\* Bounds
\* ------------------------------------------------------------------------
\* Number of inbound requests in one behaviour.
NumReqs == 3
\* Request-handling threads of the concurrent variant (SpecConc).
MaxThreads == 2
\* Tool cycles of one agent run in which the model or the listener departs
\* from the routine cycle (a ping answered with pong).
MaxVaried == 1

\* ------------------------------------------------------------------------
\* Program constants
\* ------------------------------------------------------------------------
\* HTTPServer (no ThreadingMixIn) served by one thread: one request at a time.
ServerThreads == 1
\* chat_cli.py line 206: for _ in range(12).
StepBudget == 12
\* run_agent.py line 80: max_steps: int = 8.
max_steps == 8

AUTH_TOKEN == "avez_fusion_2026_!9xQ3p"

\* Keys of the tool registry.
TOOL_MAP_KEYS ==
    { "ping", "get_state", "list_bodies", "get_last_body",
      "create_sketch_on_plane", "create_sketch_rect_xy",
      "create_sketch_circle_xy", "create_sketch_two_circles_xy",
      "create_sketch_on_last_body_top", "sketch_center_rectangle",
      "sketch_two_circles_current", "sketch_line",
      "extrude_last_profile", "extrude_profile", "revolve_profile",
      "hole_on_last_body_top_face", "hole_bolt_circle_one",
      "circular_pattern_last_feature",
      "countersink_hole_on_last_body_top_face",
      "delete_all_bodies", "combine_all_bodies",
      "circular_pattern_last_body",
      "component_from_last_body", "rigid_joint_last_two_components",
      "create_spur_gear_involute", "create_rack_gear",
      "create_helical_gear", "create_internal_gear", "create_bevel_gear" }

\* _TOOL_MAP[name]: the handler function registered under a key.  Every key
\* maps to the function of the same name with a leading underscore.
_TOOL_MAP(name) == [fn |-> name]

\* ------------------------------------------------------------------------
\* JSON values, as far as the listener looks into them
\* ------------------------------------------------------------------------
Missing == [type |-> "missing"]
JNull == [type |-> "null"]
JStr(s) == [type |-> "string", s |-> s]
JNum(n) == [type |-> "number", n |-> n]
JArr(tag) == [type |-> "array", tag |-> tag]
JArgs(tag) == [type |-> "object", tag |-> tag]
EmptyObj == JArgs("{}")
JBody(tool, args) == [type |-> "object", tool |-> tool, args |-> args]

\* Python None in a result slot.
None == [type |-> "None"]

\* ------------------------------------------------------------------------
\* Outcomes
\* ------------------------------------------------------------------------
Ok(v) == [ok |-> TRUE, result |-> v]
Failed(msg, tr) == [ok |-> FALSE, error |-> msg, trace |-> tr]
TimeoutOutcome == [ok |-> FALSE, error |-> "Timeout waiting for Fusion execution."]
UnknownTool(tool) ==
    [ok |-> FALSE, error |-> <<"Unknown tool", tool>>, available |-> TOOL_MAP_KEYS]

\* ------------------------------------------------------------------------
\* Handlers (opaque: Handler(payload) -> result | error)
\* ------------------------------------------------------------------------
\* _ping returns a constant and cannot raise.
HandlerCanRaise(fn) == fn.fn # "ping"
\* _create_helical_gear, _create_internal_gear and _create_bevel_gear consist
\* of one raise.
HandlerCanReturn(fn) ==
    fn.fn \notin {"create_helical_gear", "create_internal_gear", "create_bevel_gear"}
\* The value fn returns for a payload.
Returned(fn, payload) ==
    IF fn.fn = "ping" THEN [message |-> "pong"]
    ELSE [by |-> fn.fn, from |-> payload]
\* The exception fn raises; str(e) is its msg.
Raised(fn, payload) == [exc |-> "Exception", msg |-> <<fn.fn, "failed", payload>>]
KeyError(id) == [exc |-> "KeyError", msg |-> id]
NoExc == [exc |-> "none"]
\* traceback.format_exc() of an exception.
format_exc(e) == <<"Traceback", e.exc>>

\* ------------------------------------------------------------------------
\* Inbound requests
\* ------------------------------------------------------------------------
Reqs == 1 .. NumReqs
\* uuid4 values; one submission per request at most.
Ids == 1 .. NumReqs

Header(v) == [present |-> TRUE, value |-> v]
NoHeader == [present |-> FALSE]

RawEmpty == [len |-> 0]
\* Bytes that are no UTF-8 text.
RawBytes == [len |-> 1, utf8 |-> FALSE, json |-> FALSE]
RawGarbage == [len |-> 1, utf8 |-> TRUE, json |-> FALSE]
RawJson(v) == [len |-> 1, utf8 |-> TRUE, json |-> TRUE, value |-> v]

Request(m, p, tok, body) == [method |-> m, path |-> p, token |-> tok, body |-> body]
NoRequest == [method |-> "none"]

\* Bodies of POST /tool that reach the bridge.
BridgedBodies ==
    { RawJson(JBody(JStr("ping"), Missing)),
      RawJson(JBody(JStr("create_bevel_gear"), JArgs("a1"))),
      RawJson(JBody(JStr("get_state"), JArgs("a1"))) }

\* Bodies of POST /tool whose tool is no key of the registry.
UnknownToolBodies ==
    { RawEmpty,
      RawJson(JBody(JStr("nonexistent"), JArgs("a1"))),
      RawJson(JBody(JStr("Ping"), JArgs("a1"))),
      RawJson(JBody(Missing, JArgs("a1"))),
      RawJson(JBody(JNull, Missing)),
      RawJson(JBody(JNum(7), JNull)),
      RawJson(JBody(JArr("ping"), JArgs("a1"))),
      RawJson(JBody(JArgs("ping"), JArgs("a1"))) }

\* Bodies that are no JSON object, or no JSON at all.
OddBodies ==
    { RawBytes, RawGarbage, RawJson(JArr("x")), RawJson(JNum(1)), RawJson(JStr("ping")) }

GoodToken == Header(AUTH_TOKEN)
BadTokens == { NoHeader, Header("wrong") }

\* Requests that end in calls of _run_on_fusion_thread for distinct tasks:
\* request r carries arguments of its own.
DistinctInputs(r) ==
    { Request("POST", "/tool", GoodToken, RawJson(JBody(JStr("get_state"), JArgs(r)))) }

\* Requests with the right token for the two bridged routes: a handler that
\* returns or raises, and one that only raises.
SubmitInputs ==
    { Request("GET", "/state", GoodToken, RawEmpty),
      Request("POST", "/tool", GoodToken,
              RawJson(JBody(JStr("create_bevel_gear"), JArgs("a1")))) }

\* The requests a client may send.
RequestInputs ==
         { Request(m, p, t, RawEmpty) :
             m \in {"GET", "POST", "PUT", "DELETE"}, p \in {"/tool", "/nope"}, t \in BadTokens }
    \cup { Request("GET", p, GoodToken, RawEmpty) : p \in {"/ping", "/state", "/tool", "/nope"} }
    \cup { Request(m, "/tool", GoodToken, RawEmpty) : m \in {"PUT", "DELETE"} }
    \cup { Request("POST", p, GoodToken, RawEmpty) : p \in {"/ping", "/nope"} }
    \cup { Request("POST", "/tool", GoodToken, b) :
             b \in BridgedBodies \cup UnknownToolBodies \cup OddBodies }

\* ------------------------------------------------------------------------
\* Listener: pure parts
\* ------------------------------------------------------------------------
_auth_ok(req) == req.token.present /\ req.token.value = AUTH_TOKEN

\* bytes.decode("utf-8"): the text, or UnicodeDecodeError.
decode(body) ==
    IF body.utf8 THEN [ok |-> TRUE, text |-> body]
    ELSE [ok |-> FALSE, exc |-> "UnicodeDecodeError"]

\* do_POST lines 1060-1061: an empty body is read as "{}"; the decoding is
\* outside the try block of line 1062.
ReadRaw(req) ==
    IF req.body.len > 0 THEN decode(req.body)
    ELSE [ok |-> TRUE, text |-> RawJson(JBody(Missing, Missing))]

\* json.loads: the parsed value, or a parse error.
json_loads(raw) == IF raw.json THEN [ok |-> TRUE, value |-> raw.value] ELSE [ok |-> FALSE]

\* dict.get(key) on a parsed payload: None for an absent key.
GetTool(payload) == IF payload.tool = Missing THEN JNull ELSE payload.tool
\* payload.get("args", {}) or {}: absent and falsy values become {}.
GetArgs(payload) ==
    IF payload.args \in {Missing, JNull, JNum(0), JStr("")} THEN EmptyObj ELSE payload.args

\* hash(tool): lists and dicts are unhashable.
Hashable(v) == v.type \notin {"array", "object"}
\* tool in _TOOL_MAP, for a hashable tool.
InToolMap(v) == v.type = "string" /\ v.s \in TOOL_MAP_KEYS

\* _dispatch_tool up to the call of _run_on_fusion_thread: what it does with a
\* parsed payload.  "raise": the exception leaves _dispatch_tool.
_dispatch_tool(payload) ==
    IF payload.type # "object" \/ "tool" \notin DOMAIN payload
      THEN [kind |-> "raise", exc |-> "AttributeError"]
    ELSE IF ~Hashable(GetTool(payload))
      THEN [kind |-> "raise", exc |-> "TypeError"]
    ELSE IF ~InToolMap(GetTool(payload))
      THEN [kind |-> "return", value |-> UnknownTool(GetTool(payload))]
    ELSE [kind |-> "submit", fn |-> _TOOL_MAP(GetTool(payload).s), payload |-> GetArgs(payload)]

Response(code, obj) == [code |-> code, body |-> obj]
NoResponse == [code |-> 0]
\* The handler raised: socketserver closes the connection, nothing is sent.
Crashed(exc) == [code |-> -1, exc |-> exc]

\* ------------------------------------------------------------------------
\* Agent loop (src/client/chat_cli.py): values
\* ------------------------------------------------------------------------
\* TOOL_ROUTER: tool_name -> <<verb, path or tool string>>; the gears apart.
RouterTools ==
       ("fusion_ping" :> <<"GET", "/ping">>)
    @@ ("fusion_get_state" :> <<"GET", "/state">>)
    @@ ("fusion_create_sketch_on_plane" :> <<"POST", "create_sketch_on_plane">>)
    @@ ("fusion_create_sketch_rect_xy" :> <<"POST", "create_sketch_rect_xy">>)
    @@ ("fusion_create_sketch_circle_xy" :> <<"POST", "create_sketch_circle_xy">>)
    @@ ("fusion_create_sketch_two_circles_xy" :> <<"POST", "create_sketch_two_circles_xy">>)
    @@ ("fusion_create_sketch_on_last_body_top" :> <<"POST", "create_sketch_on_last_body_top">>)
    @@ ("fusion_sketch_center_rectangle" :> <<"POST", "sketch_center_rectangle">>)
    @@ ("fusion_sketch_two_circles_current" :> <<"POST", "sketch_two_circles_current">>)
    @@ ("fusion_sketch_line" :> <<"POST", "sketch_line">>)
    @@ ("fusion_extrude_last_profile" :> <<"POST", "extrude_last_profile">>)
    @@ ("fusion_extrude_profile" :> <<"POST", "extrude_profile">>)
    @@ ("fusion_revolve_profile" :> <<"POST", "revolve_profile">>)
    @@ ("fusion_hole_on_last_body_top_face" :> <<"POST", "hole_on_last_body_top_face">>)
    @@ ("fusion_hole_bolt_circle_one" :> <<"POST", "hole_bolt_circle_one">>)
    @@ ("fusion_circular_pattern_last_feature" :> <<"POST", "circular_pattern_last_feature">>)
    @@ ("fusion_countersink_hole_on_last_body_top_face" :> <<"POST", "countersink_hole_on_last_body_top_face">>)
    @@ ("fusion_list_bodies" :> <<"POST", "list_bodies">>)
    @@ ("fusion_get_last_body" :> <<"POST", "get_last_body">>)
    @@ ("fusion_delete_all_bodies" :> <<"POST", "delete_all_bodies">>)
    @@ ("fusion_combine_all_bodies" :> <<"POST", "combine_all_bodies">>)
    @@ ("fusion_circular_pattern_last_body" :> <<"POST", "circular_pattern_last_body">>)
    @@ ("fusion_component_from_last_body" :> <<"POST", "component_from_last_body">>)
    @@ ("fusion_rigid_joint_last_two_components" :> <<"POST", "rigid_joint_last_two_components">>)

\* The same with the spur gear's tool string shortened to its public name.
RouterGears_drift ==
       ("fusion_create_spur_gear" :> <<"POST", "create_spur_gear">>)
    @@ ("fusion_create_rack_gear" :> <<"POST", "create_rack_gear">>)
    @@ ("fusion_create_helical_gear" :> <<"POST", "create_helical_gear">>)
    @@ ("fusion_create_internal_gear" :> <<"POST", "create_internal_gear">>)
    @@ ("fusion_create_bevel_gear" :> <<"POST", "create_bevel_gear">>)

RouterGears ==
       ("fusion_create_spur_gear" :> <<"POST", "create_spur_gear_involute">>)
    @@ ("fusion_create_rack_gear" :> <<"POST", "create_rack_gear">>)
    @@ ("fusion_create_helical_gear" :> <<"POST", "create_helical_gear">>)
    @@ ("fusion_create_internal_gear" :> <<"POST", "create_internal_gear">>)
    @@ ("fusion_create_bevel_gear" :> <<"POST", "create_bevel_gear">>)

TOOL_ROUTER == RouterTools @@ RouterGears

\* The action object the model is asked for; Missing marks an absent key.
Action(action, tool_name, args, message) ==
    [type |-> "object", action |-> action, tool_name |-> tool_name,
     args |-> args, message |-> message]
FinalAction(message) == Action(JStr("final"), JNull, JNull, message)
ToolAction(tool_name, args) == Action(JStr("tool"), tool_name, args, JStr(""))
JList(items) == [type |-> "array", items |-> items]

\* Model output as text: a sequence of tokens.  An object literal is one
\* token that starts with "{" and ends with "}"; "{" and "}" alone are stray
\* braces in prose; "prose", "ws", numbers and strings hold no brace.  Token k
\* stands at the characters 2k-1 and 2k of the text.
TLit(v) == [tok |-> v.type, value |-> v]
Tok(kind) == [tok |-> kind]
Literals == {"object", "number", "string", "null"}

\* str.strip()
strip(text) ==
    LET at == { k \in DOMAIN text : text[k] # Tok("ws") } IN
    IF at = {} THEN <<>>
    ELSE SubSeq(text, CHOOSE k \in at : \A m \in at : k <= m,
                      CHOOSE k \in at : \A m \in at : k >= m)

startswith_brace(text) == text # <<>> /\ Head(text).tok \in {"object", "{"}

\* text.find("{") and text.rfind("}"): a character position, or -1.
find_open(text) ==
    LET at == { k \in DOMAIN text : text[k].tok \in {"object", "{"} } IN
    IF at = {} THEN -1 ELSE 2 * (CHOOSE k \in at : \A m \in at : k <= m) - 1
rfind_close(text) ==
    LET at == { k \in DOMAIN text : text[k].tok \in {"object", "}"} } IN
    IF at = {} THEN -1 ELSE 2 * (CHOOSE k \in at : \A m \in at : k >= m)
\* text[i : j + 1], for i at the start of a token and j at the end of one.
Slice(text, i, j) == SubSeq(text, (i + 1) \div 2, j \div 2)

\* json.loads of a text: white space around values is skipped; the text must
\* be one value, and a list here holds at most one item.
loads(text) ==
    LET t == SelectSeq(text, LAMBDA x : x # Tok("ws")) IN
    IF Len(t) = 1 /\ t[1].tok \in Literals
      THEN [ok |-> TRUE, value |-> t[1].value]
    ELSE IF t = <<Tok("["), Tok("]")>>
      THEN [ok |-> TRUE, value |-> JList(<<>>)]
    ELSE IF Len(t) = 3 /\ t[1] = Tok("[") /\ t[2].tok \in Literals /\ t[3] = Tok("]")
      THEN [ok |-> TRUE, value |-> JList(<<t[2].value>>)]
    ELSE [ok |-> FALSE, exc |-> "JSONDecodeError"]

\* Lines 185-189: only a text that does not start with "{" is cut down to
\* what lies between its first "{" and its last "}".
Extract(text) ==
    IF ~startswith_brace(text)
      THEN LET i == find_open(text)
               j == rfind_close(text)
           IN IF i # -1 /\ j # -1 /\ j > i THEN Slice(text, i, j) ELSE text
    ELSE text

_parse_json_only(text) == loads(Extract(strip(text)))

\* json.dumps(v): the text of v.
dumps(v) == [json |-> v]

\* dict.get(key, default) and dict.get(key) on a parsed object.
GetOr(v, default) == IF v = Missing THEN default ELSE v
Get(v) == GetOr(v, JNull)
\* bool(v) is False.
Falsy(v) == v \in {Missing, JNull, JStr(""), JNum(0), EmptyObj, JList(<<>>)}
\* cmd.get("args") or {}
ArgsOf(c) == IF Falsy(Get(c.args)) THEN EmptyObj ELSE c.args

\* Conversation entries.
Message(role, content) == [role |-> role, content |-> content]
SYSTEM == [text |-> "SYSTEM"]
ToolResult(tool_name, args, res) ==
    dumps([tool_result |-> [tool_name |-> tool_name, args |-> args, result |-> res]])

\* messages.append(m), and an insertion at the front instead.
append_front(msgs, m) == <<m>> \o msgs
append(msgs, m) == Append(msgs, m)

\* What agent_turn returns besides a final message.
ParseFailure(text, e) ==
    [type |-> "text", kind |-> "Model did not return valid JSON.", raw |-> text, error |-> e]
UnknownAction(c) == [type |-> "text", kind |-> "Unknown action", cmd |-> c]
MissingToolName(c) == [type |-> "text", kind |-> "Missing tool_name", cmd |-> c]
MaxStepsReached == [type |-> "text", kind |-> "Max steps reached without finishing."]
\* An exception leaving agent_turn.
Escaped(exc) == [type |-> "exception", exc |-> exc]
NoReply == [type |-> "none"]

\* {"ok": False, "error": ...} built on the client side.
ClientFailed(msg) == [ok |-> FALSE, error |-> msg]
ToolNotAllowed(tool_name) == ClientFailed(<<"Tool not allowed", tool_name>>)

\* ------------------------------------------------------------------------
\* State
\* ------------------------------------------------------------------------
VARIABLES
    \* listener side, per request
    request,        \* the request being handled
    pc,             \* where its handling stands
    frame,          \* locals of its _run_on_fusion_thread call
    response,       \* what was sent back
    \* shared between listener and host thread
    _task_queue,    \* FIFO of <<task_id, fn, payload>>
    _task_results,  \* the keys of the dict
    entry,          \* the {"event", "result"} dict created for each task id
    fired,          \* custom events fired and not yet delivered
    uuid,           \* uuid4 values handed out so far
    \* host thread (notify)
    epc,            \* where notify stands
    cur,            \* task_id, fn, payload of the task in hand
    out,            \* what its handler did
    inflight,       \* exception propagating through the finally block
    \* observation
    wait_end,       \* how each request's wait ended, and what held then
    hst,            \* per task: handler not called / running / returned / raised
                    \* ("_late": its entry was gone from _task_results by then)
    calls,          \* per task: number of handler invocations
    snap,           \* ids queued when the notify in progress started
    key_errors,     \* task ids whose completion raised KeyError in notify
    diag,           \* diagnostics shown by notify's outer except
    \* agent loop (client side)
    apc,            \* where the loop stands
    messages,       \* the conversation
    step,           \* loop index of the cycle in progress
    raw,            \* the model's output text of this cycle
    cmd,            \* the parsed action
    result,         \* the tool result of this cycle
    caught,         \* the exception e caught at line 237 in this cycle
    reply,          \* what the loop returned, or the exception that left it
    model_calls,    \* calls of client.responses.create in this run
    dispatches,     \* calls of _execute_tool / ALLOWED_TOOLS[...] in this run
    requests,       \* HTTP requests issued in this run
    varied,         \* tool cycles so far that were not the routine one
    all_tool,       \* every model output so far was a valid tool action
    \* server lifecycle
    spc,            \* where stop() stands on the host thread
    serving,        \* serve_forever is in its loop
    waiting         \* requests blocked at line 82 when stop() called shutdown

agentVars == <<apc, messages, step, raw, cmd, result, caught, reply, model_calls,
               dispatches, requests, varied, all_tool>>
listenerVars == <<request, pc, frame, response, wait_end>>
sharedVars == <<_task_queue, _task_results, entry, fired, uuid>>
hostVars == <<epc, cur, out, inflight, hst, calls, snap, key_errors, diag>>
vars == <<listenerVars, sharedVars, hostVars, agentVars, spc, serving, waiting>>

\* A dict nobody refers to any more is freed.
Blank == [event |-> FALSE, result |-> None]
Free(e, id) == [e EXCEPT ![id] = Blank]
\* notify holds the entry it looked up until it has written to it.
HostHolds(id) == epc \in {"l57_store", "l59_store", "l65_set"} /\ cur[1] = id

NoFrame == [task_id |-> 0]
Frame(id, fn, payload) == [task_id |-> id, fn |-> fn, payload |-> payload, res |-> None]
NoTask == <<0>>
NoWait == [how |-> "none"]

AgentInit ==
    /\ apc = "idle"
    /\ messages = <<Message("system", SYSTEM)>>
    /\ step = 0
    /\ raw = <<>>
    /\ cmd = None
    /\ result = None
    /\ caught = NoExc
    /\ reply = NoReply
    /\ model_calls = 0
    /\ dispatches = 0
    /\ requests = 0
    /\ varied = 0
    /\ all_tool = TRUE

Init ==
    /\ AgentInit
    /\ spc = "none"
    /\ serving = TRUE
    /\ waiting = {}
    /\ request = [r \in Reqs |-> NoRequest]
    /\ pc = [r \in Reqs |-> "new"]
    /\ frame = [r \in Reqs |-> NoFrame]
    /\ response = [r \in Reqs |-> NoResponse]
    /\ wait_end = [r \in Reqs |-> NoWait]
    /\ _task_queue = <<>>
    /\ _task_results = {}
    /\ entry = [i \in Ids |-> Blank]
    /\ fired = 0
    /\ uuid = 0
    /\ epc = "idle"
    /\ cur = NoTask
    /\ out = NoExc
    /\ inflight = NoExc
    /\ hst = [i \in Ids |-> "none"]
    /\ calls = [i \in Ids |-> 0]
    /\ snap = <<>>
    /\ key_errors = {}
    /\ diag = 0

\* ------------------------------------------------------------------------
\* Listener
\* ------------------------------------------------------------------------
Active == { r \in Reqs : pc[r] \notin {"new", "done"} }

\* serve_forever takes the next connection, a request out of `inputs`; at
\* most `threads` requests are in hand.
Accept(r, threads, inputs) ==
    /\ serving /\ spc = "none"
    /\ pc[r] = "new"
    /\ \A q \in Reqs : q < r => pc[q] # "new"
    /\ Cardinality(Active) < threads
    /\ \E req \in inputs : request' = [request EXCEPT ![r] = req]
    /\ pc' = [pc EXCEPT ![r] = "handle"]
    /\ UNCHANGED <<frame, response, wait_end, sharedVars, hostVars, agentVars,
                   spc, serving, waiting>>

Respond(r, resp) ==
    /\ response' = [response EXCEPT ![r] = resp]
    /\ pc' = [pc EXCEPT ![r] = "responded"]
    /\ UNCHANGED <<request, frame, wait_end, sharedVars, hostVars, agentVars,
                   spc, serving, waiting>>

\* The call of _run_on_fusion_thread(fn, payload).
Enter(r, fn, payload) ==
    /\ frame' = [frame EXCEPT ![r] = Frame(0, fn, payload)]
    /\ pc' = [pc EXCEPT ![r] = "l77"]
    /\ UNCHANGED <<request, response, wait_end, sharedVars, hostVars,
                   agentVars, spc, serving, waiting>>

\* BaseHTTPRequestHandler: a method without do_<METHOD> is answered 501.
send_error_501(r) ==
    /\ pc[r] = "handle"
    /\ request[r].method \notin {"GET", "POST"}
    /\ Respond(r, Response(501, [ok |-> FALSE, error |-> "Unsupported method"]))

do_GET(r) ==
    /\ pc[r] = "handle"
    /\ request[r].method = "GET"
    /\ IF ~_auth_ok(request[r])
         THEN Respond(r, Response(401, [ok |-> FALSE, error |-> "unauthorized"]))
       ELSE IF request[r].path = "/state"
         THEN Enter(r, _TOOL_MAP("get_state"), EmptyObj)
       ELSE IF request[r].path = "/ping"
         THEN Respond(r, Response(200, Ok([message |-> "pong"])))
       ELSE Respond(r, Response(404, [ok |-> FALSE, error |-> "not found"]))

do_POST(r) ==
    /\ pc[r] = "handle"
    /\ request[r].method = "POST"
    /\ IF ~_auth_ok(request[r])
         THEN Respond(r, Response(401, [ok |-> FALSE, error |-> "unauthorized"]))
       ELSE IF request[r].path # "/tool"
         THEN Respond(r, Response(404, [ok |-> FALSE, error |-> "not found"]))
       ELSE LET body == ReadRaw(request[r]) IN
         IF ~body.ok
           THEN Respond(r, Crashed(body.exc))
         ELSE LET parsed == json_loads(body.text) IN
           IF ~parsed.ok
             THEN Respond(r, Response(400, [ok |-> FALSE, error |-> "invalid json"]))
           ELSE LET d == _dispatch_tool(parsed.value) IN
             CASE d.kind = "raise" -> Respond(r, Crashed(d.exc))
               [] d.kind = "return" -> Respond(r, Response(200, d.value))
               [] d.kind = "submit" -> Enter(r, d.fn, d.payload)

\* The connection is closed and the request forgotten.
Close(r) ==
    /\ pc[r] = "responded"
    /\ pc' = [pc EXCEPT ![r] = "done"]
    /\ request' = [request EXCEPT ![r] = NoRequest]
    /\ frame' = [frame EXCEPT ![r] = NoFrame]
    /\ response' = [response EXCEPT ![r] = NoResponse]
    /\ wait_end' = [wait_end EXCEPT ![r] = NoWait]
    /\ UNCHANGED <<sharedVars, hostVars, agentVars, spc, serving, waiting>>

\* ------------------------------------------------------------------------
\* Task bridge: _run_on_fusion_thread, one action per statement
\* ------------------------------------------------------------------------
\* Lines 75-77: a fresh id, an unset event, an empty slot, the pending entry.
NewEntry(id) ==
    /\ _task_results' = _task_results \cup {id}
    /\ entry' = [entry EXCEPT ![id] = Blank]

run_l77(r) ==
    /\ pc[r] = "l77"
    /\ uuid' = uuid + 1
    /\ frame' = [frame EXCEPT ![r].task_id = uuid + 1]
    /\ NewEntry(uuid + 1)
    /\ pc' = [pc EXCEPT ![r] = "l79"]
    /\ UNCHANGED <<request, response, wait_end, _task_queue, fired, hostVars,
                   agentVars, spc, serving, waiting>>

\* Line 79: _task_queue.put((task_id, fn, payload)).
Put(q, id, fn, payload) == Append(q, <<id, fn, payload>>)

\* fn(payload) called by the request thread itself, with no task queued.
run_l79_inline(r) ==
    /\ pc[r] = "l79"
    /\ calls' = [calls EXCEPT ![frame[r].task_id] = @ + 1]
    /\ hst' = [hst EXCEPT ![frame[r].task_id] = "returned"]
    /\ entry' = [entry EXCEPT ![frame[r].task_id] =
                    [event |-> TRUE,
                     result |-> Ok(Returned(frame[r].fn, frame[r].payload))]]
    /\ pc' = [pc EXCEPT ![r] = "l82"]
    /\ UNCHANGED <<request, frame, response, wait_end, _task_queue, _task_results,
                   fired, uuid, epc, cur, out, inflight, snap, key_errors, diag,
                   agentVars, spc, serving, waiting>>

run_l79(r) ==
    /\ pc[r] = "l79"
    /\ _task_queue' = Put(_task_queue, frame[r].task_id, frame[r].fn, frame[r].payload)
    /\ pc' = [pc EXCEPT ![r] = "l80"]
    /\ UNCHANGED <<request, frame, response, wait_end,
                   _task_results, entry, fired, uuid, hostVars, agentVars,
                   spc, serving, waiting>>

\* Events fired while one is pending coalesce into that one.
run_l80_coalesced(r) ==
    /\ pc[r] = "l80"
    /\ fired' = IF fired > 0 THEN fired ELSE 1
    /\ pc' = [pc EXCEPT ![r] = "l82"]
    /\ UNCHANGED <<request, frame, response, wait_end,
                   _task_queue, _task_results, entry, uuid, hostVars,
                   agentVars, spc, serving, waiting>>

\* Line 80: app.fireCustomEvent(CUSTOM_EVENT_ID).
run_l80(r) ==
    /\ pc[r] = "l80"
    /\ fired' = fired + 1
    /\ pc' = [pc EXCEPT ![r] = "l82"]
    /\ UNCHANGED <<request, frame, response, wait_end,
                   _task_queue, _task_results, entry, uuid, hostVars,
                   agentVars, spc, serving, waiting>>

\* What holds when a wait ends: the slot of the task and its handler's state.
WaitEnd(r, how) ==
    [how |-> how,
     slot_empty |-> entry[frame[r].task_id].result = None,
     returned |-> hst[frame[r].task_id] = "returned",
     raised |-> hst[frame[r].task_id] = "raised"]

\* Line 82: ev.wait returns because the event is set.
run_l82_set(r) ==
    /\ pc[r] = "l82"
    /\ entry[frame[r].task_id].event
    /\ wait_end' = [wait_end EXCEPT ![r] = WaitEnd(r, "signal")]
    /\ pc' = [pc EXCEPT ![r] = "l83"]
    /\ UNCHANGED <<request, frame, response, sharedVars, hostVars, agentVars,
                   spc, serving, waiting>>

\* ev.wait() with no timeout: it returns by the signal only.
run_l82_forever(r) ==
    /\ pc[r] = "l82"
    /\ FALSE
    /\ UNCHANGED vars

\* Line 82: ev.wait returns because the 30 s have passed.
run_l82_timeout(r) ==
    /\ pc[r] = "l82"
    /\ ~entry[frame[r].task_id].event
    /\ wait_end' = [wait_end EXCEPT ![r] = WaitEnd(r, "timeout")]
    /\ pc' = [pc EXCEPT ![r] = "l83"]
    /\ UNCHANGED <<request, frame, response, sharedVars, hostVars, agentVars,
                   spc, serving, waiting>>

\* Line 83: res = _task_results[task_id]["result"].
ReadSlot(id) == entry[id].result

run_l83(r) ==
    /\ pc[r] = "l83"
    /\ IF frame[r].task_id \in _task_results
         THEN /\ frame' = [frame EXCEPT ![r].res = ReadSlot(frame[r].task_id)]
              /\ pc' = [pc EXCEPT ![r] = "l84"]
              /\ UNCHANGED response
         ELSE /\ response' = [response EXCEPT ![r] = Crashed("KeyError")]
              /\ pc' = [pc EXCEPT ![r] = "responded"]
              /\ UNCHANGED frame
    /\ UNCHANGED <<request, wait_end, sharedVars, hostVars, agentVars,
                   spc, serving, waiting>>

\* Line 84 left out.
Delete_skipped(keys, id) == keys
\* Line 84: del _task_results[task_id].
Delete(keys, id) == keys \ {id}

\* Line 84 taking the task out of the queue as well.
run_l84_cancels(r) ==
    /\ pc[r] = "l84"
    /\ _task_results' = _task_results \ {frame[r].task_id}
    /\ _task_queue' = SelectSeq(_task_queue, LAMBDA t : t[1] # frame[r].task_id)
    /\ entry' = IF HostHolds(frame[r].task_id) THEN entry ELSE Free(entry, frame[r].task_id)
    /\ pc' = [pc EXCEPT ![r] = "l85"]
    /\ UNCHANGED <<request, frame, response, wait_end, fired, uuid, hostVars, agentVars,
                   spc, serving, waiting>>

run_l84(r) ==
    /\ pc[r] = "l84"
    /\ _task_results' = Delete(_task_results, frame[r].task_id)
    /\ entry' = IF HostHolds(frame[r].task_id) THEN entry ELSE Free(entry, frame[r].task_id)
    /\ pc' = [pc EXCEPT ![r] = "l85"]
    /\ UNCHANGED <<request, frame, response, wait_end,
                   _task_queue, fired, uuid, hostVars, agentVars, spc, serving, waiting>>

\* Lines 85-87 without the None test.
ReturnValue_unchecked(res) == res
\* Lines 85-87: the value _run_on_fusion_thread returns.
ReturnValue(res) == IF res = None THEN TimeoutOutcome ELSE res

\* The return, and the caller's _json_response(self, 200, res).
run_l85(r) ==
    /\ pc[r] = "l85"
    /\ Respond(r, Response(200, ReturnValue(frame[r].res)))

\* ------------------------------------------------------------------------
\* Host executor: _ExecEventHandler.notify, one action per statement
\* ------------------------------------------------------------------------
\* Fusion delivers one fired custom event: notify is entered on the host thread.
notify_enter ==
    /\ epc = "idle"
    /\ spc = "none"
    /\ fired > 0
    /\ fired' = fired - 1
    /\ snap' = [i \in DOMAIN _task_queue |-> _task_queue[i][1]]
    /\ epc' = "l53"
    /\ UNCHANGED <<listenerVars, _task_queue, _task_results, entry, uuid,
                   cur, out, inflight, hst, calls, key_errors, diag, agentVars,
                   spc, serving, waiting>>

\* Line 53: the queue is empty, the loop and notify end.
notify_l53_empty ==
    /\ epc = "l53"
    /\ _task_queue = <<>>
    /\ epc' = "idle"
    /\ snap' = <<>>
    /\ UNCHANGED <<listenerVars, sharedVars,
                   cur, out, inflight, hst, calls, key_errors, diag, agentVars,
                   spc, serving, waiting>>

\* A LIFO queue in place of queue.Queue.
get_nowait_lifo(q) == [task |-> q[Len(q)], rest |-> SubSeq(q, 1, Len(q) - 1)]
\* Line 54: get_nowait takes the oldest task.
get_nowait(q) == [task |-> Head(q), rest |-> Tail(q)]

\* Lines 54 and 56: the task is taken and its handler is called.
notify_l54 ==
    /\ epc = "l53"
    /\ _task_queue # <<>>
    /\ cur' = get_nowait(_task_queue).task
    /\ _task_queue' = get_nowait(_task_queue).rest
    /\ hst' = [hst EXCEPT ![cur'[1]] = "running"]
    /\ calls' = [calls EXCEPT ![cur'[1]] = @ + 1]
    /\ epc' = "l56"
    /\ UNCHANGED <<listenerVars, _task_results, entry, fired, uuid,
                   out, inflight, snap, key_errors, diag, agentVars, spc, serving, waiting>>

\* How the handler of the task in hand ended, for the record.
Finished(how) == IF cur[1] \in _task_results THEN how ELSE how \o "_late"

\* Line 56: fn(payload) returns.
notify_l56_returns ==
    /\ epc = "l56"
    /\ HandlerCanReturn(cur[2])
    /\ out' = [exc |-> "none", ret |-> Returned(cur[2], cur[3])]
    /\ hst' = [hst EXCEPT ![cur[1]] = Finished("returned")]
    /\ epc' = "l57"
    /\ UNCHANGED <<listenerVars, sharedVars, cur, inflight, calls, snap, key_errors, diag,
                   agentVars, spc, serving, waiting>>

\* Line 56: fn(payload) raises; line 58 catches it as e.
notify_l56_raises ==
    /\ epc = "l56"
    /\ HandlerCanRaise(cur[2])
    /\ out' = Raised(cur[2], cur[3])
    /\ hst' = [hst EXCEPT ![cur[1]] = Finished("raised")]
    /\ epc' = "l59"
    /\ UNCHANGED <<listenerVars, sharedVars, cur, inflight, calls, snap, key_errors, diag,
                   agentVars, spc, serving, waiting>>

\* notify writing to the oldest pending entry instead of the task's own.
SlotKey_oldest(task) ==
    IF _task_results = {} THEN task[1]
    ELSE CHOOSE i \in _task_results : \A j \in _task_results : i <= j
\* The key notify uses for a task's entry.
SlotKey(task) == task[1]

\* Line 57 storing the raw value, without the {"ok": True, "result": ...} wrapper.
SuccessOutcome_raw(v) == v
\* Line 57: the outcome stored for a handler that returned.
SuccessOutcome(v) == Ok(v)
\* Lines 59-63 with the "ok" flag copied from line 57.
FailureOutcome_okflag(e) == [ok |-> TRUE, error |-> e.msg, trace |-> format_exc(e)]
\* Lines 59-63: the outcome stored for an exception e.
FailureOutcome(e) == Failed(e.msg, format_exc(e))

\* A write to the entry notify holds; an entry already deleted from
\* _task_results is referenced by nobody else and goes with the write.
Written(e, id) == IF id \in _task_results THEN e ELSE Free(e, id)

\* Line 57, _task_results[task_id]: the entry, or KeyError, which line 58
\* catches as e.
notify_l57_lookup ==
    /\ epc = "l57"
    /\ IF SlotKey(cur) \in _task_results
         THEN /\ epc' = "l57_store"
              /\ UNCHANGED <<out, key_errors>>
         ELSE /\ out' = KeyError(SlotKey(cur))
              /\ key_errors' = key_errors \cup {cur[1]}
              /\ epc' = "l59"
    /\ UNCHANGED <<listenerVars, sharedVars, cur, inflight, hst, calls, snap, diag,
                   agentVars, spc, serving, waiting>>

\* Line 57, ["result"] = {"ok": True, "result": out}, on the entry found.
notify_l57_store ==
    /\ epc = "l57_store"
    /\ entry' = Written([entry EXCEPT ![SlotKey(cur)].result = SuccessOutcome(out.ret)], SlotKey(cur))
    /\ epc' = "l65"
    /\ UNCHANGED <<listenerVars, _task_queue, _task_results, fired, uuid,
                   cur, out, inflight, hst, calls, snap, key_errors, diag,
                   agentVars, spc, serving, waiting>>

\* Line 59, _task_results[task_id]: the entry, or KeyError raised inside the
\* except clause, which nothing but the outer try catches.
notify_l59_lookup ==
    /\ epc = "l59"
    /\ IF SlotKey(cur) \in _task_results
         THEN /\ epc' = "l59_store"
              /\ UNCHANGED <<inflight, key_errors>>
         ELSE /\ inflight' = KeyError(SlotKey(cur))
              /\ key_errors' = key_errors \cup {cur[1]}
              /\ epc' = "l65"
    /\ UNCHANGED <<listenerVars, sharedVars, cur, out, hst, calls, snap, diag,
                   agentVars, spc, serving, waiting>>

\* Lines 59-63, ["result"] = {"ok": False, "error": str(e), "trace": ...}.
notify_l59_store ==
    /\ epc = "l59_store"
    /\ entry' = Written([entry EXCEPT ![SlotKey(cur)].result = FailureOutcome(out)],
                         SlotKey(cur))
    /\ epc' = "l65"
    /\ UNCHANGED <<listenerVars, _task_queue, _task_results, fired, uuid,
                   cur, out, inflight, hst, calls, snap, key_errors, diag,
                   agentVars, spc, serving, waiting>>

\* Line 65 (finally), _task_results[task_id]: the entry, or KeyError.
notify_l65_lookup ==
    /\ epc = "l65"
    /\ IF SlotKey(cur) \in _task_results
         THEN /\ epc' = "l65_set"
              /\ UNCHANGED <<inflight, key_errors>>
         ELSE /\ inflight' = KeyError(SlotKey(cur))
              /\ key_errors' = key_errors \cup {cur[1]}
              /\ epc' = "l66"
    /\ UNCHANGED <<listenerVars, sharedVars, cur, out, hst, calls, snap, diag,
                   agentVars, spc, serving, waiting>>

\* Line 65, ["event"].set(); an exception in flight then leaves the finally
\* block, otherwise the loop goes on.
notify_l65_set ==
    /\ epc = "l65_set"
    /\ entry' = Written([entry EXCEPT ![SlotKey(cur)].event = TRUE], SlotKey(cur))
    /\ IF inflight # NoExc
         THEN /\ epc' = "l66"
              /\ UNCHANGED <<cur, out>>
         ELSE /\ epc' = "l53"
              /\ cur' = NoTask
              /\ out' = NoExc
    /\ UNCHANGED <<listenerVars, _task_queue, _task_results, fired, uuid,
                   inflight, hst, calls, snap, key_errors, diag, agentVars,
                   spc, serving, waiting>>

\* notify without the outer try: the exception leaves notify.
notify_l66_propagates ==
    /\ epc = "l66"
    /\ cur' = NoTask
    /\ out' = NoExc
    /\ epc' = "idle"
    /\ snap' = <<>>
    /\ UNCHANGED <<listenerVars, sharedVars, inflight, diag, hst, calls, key_errors,
                   agentVars, spc, serving, waiting>>

\* Lines 66-71: the outer except shows a message box and notify ends.
notify_l66_except ==
    /\ epc = "l66"
    /\ diag' = diag + 1
    /\ inflight' = NoExc
    /\ cur' = NoTask
    /\ out' = NoExc
    /\ epc' = "idle"
    /\ snap' = <<>>
    /\ UNCHANGED <<listenerVars, sharedVars, hst, calls, key_errors, agentVars,
                   spc, serving, waiting>>

\* ------------------------------------------------------------------------
\* Server lifecycle: stop() on the host thread, serve_forever on its thread
\* ------------------------------------------------------------------------
\* Line 1101: _server.shutdown() asks the loop to end and waits for it.  The
\* host thread is free to run stop() when it is not inside notify.
stop_l1101 ==
    /\ spc = "none"
    /\ epc = "idle"
    /\ spc' = "l1101"
    /\ waiting' = { r \in Reqs : pc[r] = "l82" /\ ~entry[frame[r].task_id].event }
    /\ UNCHANGED <<serving, listenerVars, sharedVars, hostVars, agentVars>>

\* Line 1088: serve_forever, between two requests, finds the shutdown
\* request and leaves its loop.
serve_forever_exit ==
    /\ spc = "l1101"
    /\ serving
    /\ Active = {}
    /\ serving' = FALSE
    /\ UNCHANGED <<spc, waiting, listenerVars, sharedVars, hostVars, agentVars>>

\* Lines 1101-1110: shutdown() returns once the loop has ended; the socket is
\* closed, the custom event unregistered, and stop() returns.
stop_l1102 ==
    /\ spc = "l1101"
    /\ ~serving
    /\ spc' = "returned"
    /\ UNCHANGED <<serving, waiting, listenerVars, sharedVars, hostVars, agentVars>>

\* ------------------------------------------------------------------------
\* The listener as a client sees it
\* ------------------------------------------------------------------------
\* What _run_on_fusion_thread(fn, payload) can return.
BridgeOutcomes(fn, payload) ==
       { SuccessOutcome(Returned(f, payload)) : f \in { g \in {fn} : HandlerCanReturn(g) } }
    \cup { FailureOutcome(Raised(f, payload)) : f \in { g \in {fn} : HandlerCanRaise(g) } }
    \cup { TimeoutOutcome }

\* The answers the listener can give to a request (Crashed: none, the
\* connection is closed).
ListenerAnswers(req) ==
    IF req.method \notin {"GET", "POST"}
      THEN { Response(501, [ok |-> FALSE, error |-> "Unsupported method"]) }
    ELSE IF ~_auth_ok(req)
      THEN { Response(401, [ok |-> FALSE, error |-> "unauthorized"]) }
    ELSE IF req.method = "GET"
      THEN IF req.path = "/state"
             THEN { Response(200, o) : o \in BridgeOutcomes(_TOOL_MAP("get_state"), EmptyObj) }
           ELSE IF req.path = "/ping"
             THEN { Response(200, Ok([message |-> "pong"])) }
           ELSE { Response(404, [ok |-> FALSE, error |-> "not found"]) }
    ELSE IF req.path # "/tool"
      THEN { Response(404, [ok |-> FALSE, error |-> "not found"]) }
    ELSE IF ~ReadRaw(req).ok
      THEN { Crashed(ReadRaw(req).exc) }
    ELSE LET parsed == json_loads(ReadRaw(req).text) IN
      IF ~parsed.ok
        THEN { Response(400, [ok |-> FALSE, error |-> "invalid json"]) }
      ELSE LET d == _dispatch_tool(parsed.value) IN
        CASE d.kind = "raise" -> { Crashed(d.exc) }
          [] d.kind = "return" -> { Response(200, d.value) }
          [] d.kind = "submit" -> { Response(200, o) : o \in BridgeOutcomes(d.fn, d.payload) }

\* ------------------------------------------------------------------------
\* Agent loop: the client of the listener
\* ------------------------------------------------------------------------
\* FUSION_TOKEN comes from the environment and need not be the listener's.
ClientTokens == { GoodToken, Header("wrong") }

\* How a call ends, and the HTTP requests it made.
Value(v, n) == [raised |-> FALSE, value |-> v, requests |-> n]
Raise(exc, n) == [raised |-> TRUE, exc |-> exc, requests |-> n]
Exc(name, code) == [name |-> name, code |-> code]

\* r.raise_for_status(); return r.json()
FromResponse(resp) ==
    IF resp.code = -1 THEN Raise(Exc("RemoteProtocolError", 0), 1)
    ELSE IF resp.code >= 400 THEN Raise(Exc("HTTPStatusError", resp.code), 1)
    ELSE Value(resp.body, 1)

\* One request over httpx: no connection, or what the listener answers.
Send(req) == { Raise(Exc("ConnectError", 0), 1) } \cup { FromResponse(a) : a \in ListenerAnswers(req) }

fusion_get(path) ==
    UNION { Send(Request("GET", path, tok, RawEmpty)) : tok \in ClientTokens }

\* json={"tool": tool, "args": args or {}}
fusion_tool(tool, args) ==
    UNION { Send(Request("POST", "/tool", tok,
                         RawJson(JBody(JStr(tool), IF Falsy(args) THEN EmptyObj ELSE args)))) :
            tok \in ClientTokens }

\* _execute_tool(tool_name, args): what the call can end in.
_execute_tool(tool_name, args) ==
    IF ~Hashable(tool_name)
      THEN { Raise(Exc("TypeError", 0), 0) }
    ELSE IF ~(tool_name.type = "string" /\ tool_name.s \in DOMAIN TOOL_ROUTER)
      THEN { Value(ToolNotAllowed(tool_name), 0) }
    ELSE LET kind == TOOL_ROUTER[tool_name.s] IN
      IF kind[1] = "GET" THEN fusion_get(kind[2]) ELSE fusion_tool(kind[2], args)

\* Lines 235-238 with the exception reported as a success.
ResultOf_okflag(o) == IF o.raised THEN [ok |-> TRUE, error |-> o.exc] ELSE o.value
\* Lines 235-238: an exception becomes {"ok": False, "error": str(e)}.
ResultOf(o) == IF o.raised THEN ClientFailed(o.exc) ELSE o.value

\* ------------------------------------------------------------------------
\* Agent loop: what the model may say
\* ------------------------------------------------------------------------
UserTexts == { [text |-> "Create spur gear: teeth 24, module 2 mm."] }

Done == FinalAction(JStr("done"))
\* The tool action of a routine cycle, and its routine result.
Ping == ToolAction(JStr("fusion_ping"), Missing)
Routine == <<TLit(Ping)>>
RoutineResult == Ok([message |-> "pong"])

\* The action objects the model may write.
ModelActions ==
    { Done, FinalAction(Missing), Ping,
      ToolAction(JStr("fusion_get_state"), JNull),
      ToolAction(JStr("fusion_create_spur_gear"), JArgs("a1")),
      ToolAction(JStr("fusion_nonexistent"), JArgs("a1")),
      ToolAction(JList(<<JStr("fusion_ping")>>), Missing),
      ToolAction(Missing, Missing), ToolAction(JNull, JArgs("a1")),
      ToolAction(JStr(""), Missing),
      Action(Missing, JStr("fusion_ping"), Missing, Missing),
      Action(JStr("think"), JNull, JNull, JStr("hm")) }

\* The texts the model may answer with: an action object as pure JSON; an
\* action object with prose or white space around it; no object, or two;
\* JSON that is no object.
ModelOutputs ==
         { <<TLit(a)>> : a \in ModelActions }
    \cup { <<Tok("prose"), TLit(a)>> : a \in {Done, Ping} }
    \cup { <<TLit(a), Tok("prose")>> : a \in {Done, Ping} }
    \cup { <<Tok("prose"), TLit(Done), Tok("prose")>>, <<Tok("ws"), TLit(Done), Tok("ws")>> }
    \cup { <<>>, <<Tok("prose")>>, <<Tok("prose"), Tok("{"), Tok("prose"), Tok("}")>>,
           <<Tok("}"), Tok("prose"), Tok("{")>>, <<Tok("prose"), TLit(Done), TLit(Done)>> }
    \cup { <<TLit(JNum(5))>>, <<TLit(JStr("done"))>>, <<TLit(JNull)>>,
           <<Tok("["), TLit(JNum(1)), Tok("]")>>, <<Tok("["), TLit(Done), Tok("]")>> }

\* An output after which the cycle goes on to execute a tool.
Continues(text) ==
    LET p == _parse_json_only(strip(text)) IN
    /\ p.ok
    /\ p.value.type = "object"
    /\ Get(p.value.action) = JStr("tool")
    /\ ~Falsy(Get(p.value.tool_name))

\* A registered tool action as pure JSON.
ValidToolOutput(text) ==
    /\ Len(text) = 1
    /\ text[1].tok = "object"
    /\ text[1].value.action = JStr("tool")
    /\ text[1].value.tool_name.type = "string"
    /\ text[1].value.tool_name.s \in DOMAIN TOOL_ROUTER

\* ------------------------------------------------------------------------
\* Agent loop: agent_turn, one action per step of a cycle
\* ------------------------------------------------------------------------
Return(value) ==
    /\ reply' = value
    /\ apc' = "returned"

\* Line 204.
agent_turn(user_text) ==
    /\ apc = "idle"
    /\ messages' = append(messages, Message("user", user_text))
    /\ apc' = "l206"
    /\ UNCHANGED <<step, raw, cmd, result, caught, reply, model_calls, dispatches,
                   requests, varied, all_tool, listenerVars, sharedVars, hostVars,
                   spc, serving, waiting>>

\* A loop that runs one cycle too many.
range_has_next_13(i) == i <= StepBudget

\* range(12) has another value.
range_has_next(i) == i < StepBudget

\* Lines 206-211: the next cycle starts with a model call.
create_response(text) ==
    /\ apc = "l206"
    /\ range_has_next(step)
    /\ IF Continues(text) /\ strip(text) # Routine
         THEN varied < MaxVaried /\ varied' = varied + 1
       ELSE varied' = varied
    /\ raw' = strip(text)
    /\ model_calls' = model_calls + 1
    /\ all_tool' = (all_tool /\ ValidToolOutput(text))
    /\ apc' = "l213"
    /\ UNCHANGED <<messages, step, cmd, result, caught, reply, dispatches, requests,
                   listenerVars, sharedVars, hostVars, spc, serving, waiting>>

\* Line 257: the loop ran out.
return_l257 ==
    /\ apc = "l206"
    /\ ~range_has_next(step)
    /\ Return(MaxStepsReached)
    /\ UNCHANGED <<messages, step, raw, cmd, result, caught, model_calls, dispatches,
                   requests, varied, all_tool, listenerVars, sharedVars, hostVars,
                   spc, serving, waiting>>

\* Line 219: what is appended for a parsed output.
AssistantEntry_none(c) == Message("assistant", dumps(JNull))
AssistantEntry(c) == Message("assistant", dumps(c))

\* Lines 213-219.
parse_l213 ==
    /\ apc = "l213"
    /\ LET p == _parse_json_only(raw) IN
         IF ~p.ok
           THEN /\ messages' = append(messages, Message("assistant", [text |-> raw]))
                /\ Return(ParseFailure(raw, p.exc))
                /\ UNCHANGED cmd
         ELSE /\ cmd' = p.value
              /\ messages' = append(messages, AssistantEntry(p.value))
              /\ apc' = "l221"
              /\ UNCHANGED reply
    /\ UNCHANGED <<step, raw, result, caught, model_calls, dispatches, requests,
                   varied, all_tool, listenerVars, sharedVars, hostVars,
                   spc, serving, waiting>>

\* Lines 221-232; cmd.get on anything but a dict raises AttributeError, which
\* nothing in agent_turn catches.
interpret_l221 ==
    /\ apc = "l221"
    /\ IF cmd.type # "object"
         THEN Return(Escaped("AttributeError"))
       ELSE IF Get(cmd.action) = JStr("final")
         THEN Return(GetOr(cmd.message, JStr("")))
       ELSE IF Get(cmd.action) # JStr("tool")
         THEN Return(UnknownAction(cmd))
       ELSE IF Falsy(Get(cmd.tool_name))
         THEN Return(MissingToolName(cmd))
       ELSE apc' = "l235" /\ UNCHANGED reply
    /\ UNCHANGED <<messages, step, raw, cmd, result, caught, model_calls, dispatches,
                   requests, varied, all_tool, listenerVars, sharedVars, hostVars,
                   spc, serving, waiting>>

\* Lines 235-238.
execute_l235 ==
    /\ apc = "l235"
    /\ \E o \in _execute_tool(Get(cmd.tool_name), ArgsOf(cmd)) :
         /\ caught' = IF o.raised THEN o.exc ELSE NoExc
         /\ result' = ResultOf(o)
         /\ requests' = requests + o.requests
         /\ IF raw = Routine /\ ResultOf(o) # RoutineResult
              THEN varied < MaxVaried /\ varied' = varied + 1
            ELSE varied' = varied
    /\ dispatches' = dispatches + 1
    /\ apc' = "l241"
    /\ UNCHANGED <<messages, step, raw, cmd, reply, model_calls, all_tool,
                   listenerVars, sharedVars, hostVars, spc, serving, waiting>>

\* Lines 241-255, and the loop's next index.  raw, cmd and result are not
\* read again before the next cycle assigns them.
append_l241 ==
    /\ apc = "l241"
    /\ messages' = append(messages,
                          Message("user", ToolResult(Get(cmd.tool_name), ArgsOf(cmd), result)))
    /\ step' = step + 1
    /\ raw' = <<>>
    /\ cmd' = None
    /\ result' = None
    /\ caught' = NoExc
    /\ apc' = "l206"
    /\ UNCHANGED <<reply, model_calls, dispatches, requests, varied, all_tool,
                   listenerVars, sharedVars, hostVars, spc, serving, waiting>>

\* ------------------------------------------------------------------------
\* The scripted agent (src/client/run_agent.py): main, one action per step
\* ------------------------------------------------------------------------
ALLOWED_TOOLS ==
       ("fusion_ping" :> <<"GET", "/ping">>)
    @@ ("fusion_get_state" :> <<"GET", "/state">>)
    @@ ("fusion_create_sketch_rect_xy" :> <<"POST", "create_sketch_rect_xy">>)
    @@ ("fusion_extrude_last_profile" :> <<"POST", "extrude_last_profile">>)

\* extract_json: strip and json.loads, no recovery.
extract_json(text) == loads(strip(text))

\* An output after which main goes on to execute a tool.
ContinuesMain(text) ==
    LET p == extract_json(text) IN
    /\ p.ok
    /\ p.value.type = "object"
    /\ Get(p.value.action) = JStr("tool")
    /\ Get(p.value.tool_name).type = "string"
    /\ Get(p.value.tool_name).s \in DOMAIN ALLOWED_TOOLS

\* Lines 82-85.
main ==
    /\ apc = "idle"
    /\ messages' = <<Message("system", SYSTEM), Message("user", [text |-> "GOAL"])>>
    /\ apc' = "m87"
    /\ UNCHANGED <<step, raw, cmd, result, caught, reply, model_calls, dispatches,
                   requests, varied, all_tool, listenerVars, sharedVars, hostVars,
                   spc, serving, waiting>>

\* Lines 87-93.
main_l88(text) ==
    /\ apc = "m87"
    /\ step < max_steps
    /\ IF ContinuesMain(text) /\ strip(text) # Routine
         THEN varied < MaxVaried /\ varied' = varied + 1
       ELSE varied' = varied
    /\ raw' = strip(text)
    /\ model_calls' = model_calls + 1
    /\ all_tool' = (all_tool /\ ValidToolOutput(text))
    /\ apc' = "m94"
    /\ UNCHANGED <<messages, step, cmd, result, caught, reply, dispatches, requests,
                   listenerVars, sharedVars, hostVars, spc, serving, waiting>>

\* Line 130.
main_l130 ==
    /\ apc = "m87"
    /\ step >= max_steps
    /\ Return(Escaped("RuntimeError: Max steps reached without finishing."))
    /\ UNCHANGED <<messages, step, raw, cmd, result, caught, model_calls, dispatches,
                   requests, varied, all_tool, listenerVars, sharedVars, hostVars,
                   spc, serving, waiting>>

\* Lines 94-97.
main_l94 ==
    /\ apc = "m94"
    /\ LET p == extract_json(raw) IN
         IF ~p.ok
           THEN /\ Return(Escaped("RuntimeError: Model did not return valid JSON."))
                /\ UNCHANGED cmd
         ELSE /\ cmd' = p.value
              /\ apc' = "m99"
              /\ UNCHANGED reply
    /\ UNCHANGED <<messages, step, raw, result, caught, model_calls, dispatches,
                   requests, varied, all_tool, listenerVars, sharedVars, hostVars,
                   spc, serving, waiting>>

\* Lines 99-110: every check that fails raises out of main.
main_l99 ==
    /\ apc = "m99"
    /\ IF cmd.type # "object"
         THEN Return(Escaped("AttributeError"))
       ELSE IF Get(cmd.action) = JStr("final")
         THEN Return(GetOr(cmd.message, JStr("")))
       ELSE IF Get(cmd.action) # JStr("tool")
         THEN Return(Escaped("RuntimeError: Unknown action"))
       ELSE IF ~Hashable(Get(cmd.tool_name))
         THEN Return(Escaped("TypeError"))
       ELSE IF ~(Get(cmd.tool_name).type = "string"
                 /\ Get(cmd.tool_name).s \in DOMAIN ALLOWED_TOOLS)
         THEN Return(Escaped("RuntimeError: Tool not allowed"))
       ELSE apc' = "m113" /\ UNCHANGED reply
    /\ UNCHANGED <<messages, step, raw, cmd, result, caught, model_calls, dispatches,
                   requests, varied, all_tool, listenerVars, sharedVars, hostVars,
                   spc, serving, waiting>>

\* Lines 113-116.
main_l113 ==
    /\ apc = "m113"
    /\ LET kind == ALLOWED_TOOLS[cmd.tool_name.s] IN
       \E o \in IF kind[1] = "GET" THEN fusion_get(kind[2])
                ELSE fusion_tool(kind[2], ArgsOf(cmd)) :
         /\ caught' = IF o.raised THEN o.exc ELSE NoExc
         /\ result' = ResultOf(o)
         /\ requests' = requests + o.requests
         /\ IF raw = Routine /\ ResultOf(o) # RoutineResult
              THEN varied < MaxVaried /\ varied' = varied + 1
            ELSE varied' = varied
    /\ dispatches' = dispatches + 1
    /\ apc' = "m119"
    /\ UNCHANGED <<messages, step, raw, cmd, reply, model_calls, all_tool,
                   listenerVars, sharedVars, hostVars, spc, serving, waiting>>

\* Lines 119-128, and the loop's next index.
main_l119 ==
    /\ apc = "m119"
    /\ messages' = append(append(messages, Message("assistant", [text |-> raw])),
                          Message("user", ToolResult(Get(cmd.tool_name), ArgsOf(cmd), result)))
    /\ step' = step + 1
    /\ raw' = <<>>
    /\ cmd' = None
    /\ result' = None
    /\ caught' = NoExc
    /\ apc' = "m87"
    /\ UNCHANGED <<reply, model_calls, dispatches, requests, varied, all_tool,
                   listenerVars, sharedVars, hostVars, spc, serving, waiting>>

\* ------------------------------------------------------------------------
\* Specifications
\* ------------------------------------------------------------------------
Host ==
    \/ notify_enter
    \/ notify_l53_empty
    \/ notify_l54
    \/ notify_l56_returns
    \/ notify_l56_raises
    \/ notify_l57_lookup
    \/ notify_l57_store
    \/ notify_l59_lookup
    \/ notify_l59_store
    \/ notify_l65_lookup
    \/ notify_l65_set
    \/ notify_l66_except

\* The steps of one request inside _run_on_fusion_thread.
Submit(r) ==
    \/ run_l77(r)
    \/ run_l79(r)
    \/ run_l80(r)
    \/ run_l82_set(r)
    \/ run_l82_timeout(r)
    \/ run_l83(r)
    \/ run_l84(r)
    \/ run_l85(r)

\* The add-in as it runs: one listener thread, one host thread.
Next ==
    \/ \E r \in Reqs : Accept(r, ServerThreads, RequestInputs)
    \/ \E r \in Reqs : send_error_501(r)
    \/ \E r \in Reqs : do_GET(r)
    \/ \E r \in Reqs : do_POST(r)
    \/ \E r \in Reqs : Submit(r)
    \/ \E r \in Reqs : Close(r)
    \/ Host

Spec == Init /\ [][Next]_vars

\* _run_on_fusion_thread called from MaxThreads request threads at once, one
\* request each, every request for a task of its own.
NextConc ==
    \/ \E r \in 1 .. MaxThreads : Accept(r, MaxThreads, DistinctInputs(r))
    \/ \E r \in Reqs : do_POST(r)
    \/ \E r \in Reqs : Submit(r)
    \/ \E r \in Reqs : Close(r)
    \/ Host

SpecConc == Init /\ [][NextConc]_vars

\* One run of the agent loop of chat_cli.py against a model and a listener
\* that may do anything they can do.
NextAgent ==
    \/ \E user_text \in UserTexts : agent_turn(user_text)
    \/ \E text \in ModelOutputs : create_response(text)
    \/ return_l257
    \/ parse_l213
    \/ interpret_l221
    \/ execute_l235
    \/ append_l241

SpecAgent == Init /\ [][NextAgent]_vars

\* One run of the scripted agent of run_agent.py.
NextMain ==
    \/ main
    \/ \E text \in ModelOutputs : main_l88(text)
    \/ main_l130
    \/ main_l94
    \/ main_l99
    \/ main_l113
    \/ main_l119

SpecMain == Init /\ [][NextMain]_vars

\* The add-in serving the requests that call _run_on_fusion_thread.
NextSubmit ==
    \/ \E r \in Reqs : Accept(r, ServerThreads, SubmitInputs)
    \/ \E r \in Reqs : do_GET(r)
    \/ \E r \in Reqs : do_POST(r)
    \/ \E r \in Reqs : Submit(r)
    \/ \E r \in Reqs : Close(r)
    \/ Host

\* The add-in with every request thread scheduled: a thread that can take a
\* step of _run_on_fusion_thread takes it, and a wait of 30 s ends.  Nothing is
\* assumed of the host thread: it may deliver no event and may stay in a
\* handler for ever.
SpecSubmit == Init /\ [][NextSubmit]_vars /\ \A r \in Reqs : WF_vars(Submit(r))

\* The same with the host thread scheduled as well: every custom event fired
\* is delivered as a notify call of its own once the host thread is free, and
\* every statement of notify, a handler's call included, comes to its end.
SpecDelivered ==
    /\ Init /\ [][NextSubmit]_vars
    /\ \A r \in Reqs : WF_vars(Submit(r))
    /\ WF_vars(Host)

\* The add-in being stopped.  The listener thread and the host thread inside
\* stop() are scheduled, and a wait of 30 s ends; no event needs to be
\* delivered and no client needs to connect.
SpecStop ==
    /\ Init
    /\ [][NextSubmit \/ stop_l1101 \/ serve_forever_exit \/ stop_l1102]_vars
    /\ WF_vars(serve_forever_exit
                 \/ \E r \in Reqs : do_GET(r) \/ do_POST(r) \/ Submit(r) \/ Close(r))
    /\ WF_vars(stop_l1102)

\* ------------------------------------------------------------------------
\* Properties
\* ------------------------------------------------------------------------
\* Request r went through _run_on_fusion_thread, which has returned; the body
\* of its response is the value returned.
HasReturned(r) == pc[r] = "responded" /\ frame[r] # NoFrame
TaskOf(r) == frame[r].task_id
OwnSuccess(r) == Ok(Returned(frame[r].fn, frame[r].payload))
OwnFailure(r) ==
    LET e == Raised(frame[r].fn, frame[r].payload)
    IN  [ok |-> FALSE, error |-> e.msg, trace |-> format_exc(e)]

\* C1, as claimed: a submission whose handler had returned normally when the
\* submitter's wait ended gets {ok: true, result: value}, and its handler was
\* invoked exactly once.
C1_ReturnedBeforeWaitEnds ==
    \A r \in Reqs :
        HasReturned(r) /\ wait_end[r].returned
            => /\ response[r] = Response(200, OwnSuccess(r))
               /\ calls[TaskOf(r)] = 1

\* C1, amended: a submission whose handler returned normally and whose outcome
\* was in the result slot when the submitter read it (line 83) gets
\* {ok: true, result: value}, and its handler was invoked exactly once.
C1_StoredBeforeRead ==
    \A r \in Reqs :
        HasReturned(r) /\ hst[TaskOf(r)] = "returned" /\ frame[r].res # None
            => /\ response[r] = Response(200, OwnSuccess(r))
               /\ calls[TaskOf(r)] = 1

C1_Witness ==
    \E r \in Reqs :
        /\ HasReturned(r)
        /\ hst[TaskOf(r)] = "returned"
        /\ response[r] = Response(200, OwnSuccess(r))

C3_ExpiredWithEmptySlot ==
    \A r \in Reqs :
        HasReturned(r) /\ wait_end[r].how = "timeout" /\ wait_end[r].slot_empty
            => /\ response[r] = Response(200, TimeoutOutcome)
               /\ TaskOf(r) \notin _task_results

\* C3, amended: a wait that expires, with the result slot still empty when the
\* submitter reads it (line 83), makes Submit return the timeout failure, with
\* the id gone from _task_results.
C3_EmptyWhenRead ==
    \A r \in Reqs :
        HasReturned(r) /\ wait_end[r].how = "timeout" /\ frame[r].res = None
            => /\ response[r] = Response(200, TimeoutOutcome)
               /\ TaskOf(r) \notin _task_results

C3_Witness ==
    \E r \in Reqs :
        /\ HasReturned(r)
        /\ wait_end[r].how = "timeout"
        /\ frame[r].res = None
        /\ response[r] = Response(200, TimeoutOutcome)

\* The requests between the insertion of their entry and its deletion.
Owners == { r \in Reqs : pc[r] \in {"l79", "l80", "l82", "l83", "l84"} }

\* C4: finishing a task whose entry its timed-out submitter has removed raises
\* no error inside notify and brings no entry back into _task_results.
C4_LateCompletionDiscarded ==
    /\ key_errors = {}
    /\ \A id \in _task_results : \E r \in Owners : TaskOf(r) = id

\* notify returns with this step.
NotifyReturns == epc # "idle" /\ epc' = "idle"
Queued(q) == { q[i][1] : i \in DOMAIN q }

\* C5: when a notify call returns, every task that was queued when it started
\* has been dequeued and has had its handler invoked.
C5_DrainsCompletely ==
    [][NotifyReturns =>
          \A i \in DOMAIN snap :
              snap[i] \notin Queued(_task_queue') /\ calls[snap[i]] >= 1]_vars

HandlerDone(h) == h \in {"returned", "raised", "returned_late", "raised_late"}

\* C6: of two tasks in the queue when a drain starts, the earlier one's
\* handler has finished (returned or raised) before the later one's starts,
\* and at no time are two handlers running.
C6_FifoNoOverlap ==
    /\ \A i, j \in DOMAIN snap :
          i < j /\ hst[snap[j]] # "none" => HandlerDone(hst[snap[i]])
    /\ Cardinality({ id \in Ids : hst[id] = "running" }) <= 1

C6_Witness ==
    /\ Len(snap) >= 2
    /\ HandlerDone(hst[snap[1]])
    /\ hst[snap[2]] = "running"

\* C7: whatever the interleaving of concurrent submitters and notify, the
\* outcome a submitter gets is that of its own handler applied to its own
\* payload, or its own timeout.
C7_NoCrossDelivery ==
    \A r \in Reqs :
        HasReturned(r) =>
            /\ response[r].code = 200
            /\ response[r].body \in {OwnSuccess(r), OwnFailure(r), TimeoutOutcome}

\* Two submitters in _run_on_fusion_thread at once, both served by notify.
C7_Witness ==
    \E r, q \in Reqs :
        /\ r # q
        /\ HasReturned(r)
        /\ response[r].body \in {OwnSuccess(r), OwnFailure(r)}
        /\ pc[q] = "l83"
        /\ wait_end[q].how = "signal"

\* C8: the keys of _task_results are exactly the ids of the submissions
\* between their insertion (line 77) and their deletion (line 84): an id is
\* there from its insertion until its submitter has read the slot, nobody but
\* the submitter removes it, it is removed once, and with no Submit call in
\* progress the map is empty.
C8_PendingSet == _task_results = { TaskOf(r) : r \in Owners }

\* Every submitter has returned, one of them after a timeout whose task notify
\* finished later, and the map is empty.
C8_Witness ==
    /\ uuid >= 2
    /\ Owners = {}
    /\ key_errors # {}
    /\ _task_results = {}

\* C9: a request without the right X-Token value is answered 401, whatever
\* its method and path.
C9_UnauthorizedGets401 ==
    \A r \in Reqs :
        pc[r] = "responded" /\ ~_auth_ok(request[r]) => response[r].code = 401

\* An authenticated POST /tool with a JSON object whose tool is no registry key.
UnknownToolRequest(req) ==
    /\ req.method = "POST"
    /\ req.path = "/tool"
    /\ _auth_ok(req)
    /\ ReadRaw(req).ok
    /\ LET parsed == json_loads(ReadRaw(req).text) IN
         /\ parsed.ok
         /\ parsed.value.type = "object"
         /\ "tool" \in DOMAIN parsed.value
         /\ ~(GetTool(parsed.value).type = "string" /\ GetTool(parsed.value).s \in TOOL_MAP_KEYS)

\* C10: POST /tool with an unregistered tool value is answered
\* {ok: false, error, available: every registry key}; no call of
\* _run_on_fusion_thread is made for it and the lookup does not throw.
C10_UnknownToolAnswered ==
    \A r \in Reqs :
        UnknownToolRequest(request[r]) =>
            /\ pc[r] \in {"handle", "responded"}
            /\ frame[r] = NoFrame
            /\ pc[r] = "responded" =>
                  /\ response[r].code = 200
                  /\ response[r].body.ok = FALSE
                  /\ response[r].body.available = TOOL_MAP_KEYS

\* An authenticated POST /tool.
PostTool(req) == req.method = "POST" /\ req.path = "/tool" /\ _auth_ok(req)
\* Its body is sent, and is text that is JSON / is not.
Parseable(body) == body.len > 0 /\ body.utf8 /\ body.json
Unparseable(body) == body.len > 0 /\ ~(body.utf8 /\ body.json)

\* C11: an authenticated POST /tool whose body is not parseable as JSON is
\* answered 400, and no call of _run_on_fusion_thread is made for it (no
\* entry, no task, no event).
C11_MalformedGets400 ==
    \A r \in Reqs :
        PostTool(request[r]) /\ Unparseable(request[r].body) =>
            /\ pc[r] \in {"handle", "responded"}
            /\ frame[r] = NoFrame
            /\ pc[r] = "responded" => response[r].code = 400

\* C12: an authenticated POST /tool whose body parses as JSON, whatever the
\* shape of the parsed value and whatever the bridge outcome, is answered
\* with status 200 and a JSON object carrying ok: true or ok: false.
C12_ParsedBodyGets200 ==
    \A r \in Reqs :
        PostTool(request[r]) /\ Parseable(request[r].body) /\ pc[r] = "responded" =>
            /\ response[r].code = 200
            /\ response[r].body.ok \in BOOLEAN

\* Every response the listener sends is one of ListenerAnswers, the listener
\* as the agent's client sees it.
ListenerAnswersSound ==
    \A r \in Reqs :
        pc[r] = "responded" => response[r] \in ListenerAnswers(request[r])

\* ------------------------------------------------------------------------
\* Properties of the agent loop
\* ------------------------------------------------------------------------
\* The conversation agent_turn was called with.
Conversation0 == <<Message("system", SYSTEM)>>

\* The output of the cycle in progress is an action object as pure JSON.
PureAction(text) == Len(text) = 1 /\ text[1].tok = "object"
\* The run's first model output is a final action.
FirstIsFinal == step = 0 /\ PureAction(raw) /\ raw[1].value.action = JStr("final")

\* C13: if the first model output of a run is a final action, agent_turn
\* returns that action's message (the empty string if it has none) after one
\* model call and no tool dispatch, and the model's structured response is
\* the one entry appended after the user input.
C13_FinalFirst ==
    FirstIsFinal =>
        /\ model_calls = 1
        /\ dispatches = 0
        /\ requests = 0
        /\ apc \in {"l213", "l221", "returned"}
        /\ apc = "returned" =>
              /\ reply = (IF raw[1].value.message = Missing
                            THEN JStr("") ELSE raw[1].value.message)
              /\ Len(messages) = Len(Conversation0) + 2
              /\ messages[Len(messages)] = Message("assistant", dumps(raw[1].value))

C13_Witness ==
    /\ FirstIsFinal
    /\ apc = "returned"
    /\ reply = JStr("done")

\* A tool_result entry whose result is not ok.
FailedToolResult(m) ==
    /\ m.role = "user"
    /\ "json" \in DOMAIN m.content
    /\ ~m.content.json.tool_result.result.ok

\* C14: a run in which every model output is a registered tool action ends
\* only with the max-steps message, after 12 model calls and 12 cycles and at
\* most 12 tool dispatches, whatever the tools' outcomes; no run makes more
\* than 12 model calls.
C14_BudgetExhausted ==
    /\ model_calls <= 12
    /\ dispatches <= model_calls
    /\ all_tool /\ apc = "returned" =>
          /\ reply = MaxStepsReached
          /\ model_calls = 12
          /\ step = 12
          /\ dispatches <= 12
    /\ apc = "returned" /\ reply = MaxStepsReached => model_calls = 12

C14_Witness ==
    /\ all_tool
    /\ apc = "returned"
    /\ reply = MaxStepsReached
    /\ \E i \in DOMAIN messages : FailedToolResult(messages[i])

\* What lies between the first "{" and the last "}" of a text.
Embedded(text) ==
    LET i == find_open(text)
        j == rfind_close(text)
    IN IF i # -1 /\ j # -1 /\ j > i THEN Slice(text, i, j) ELSE <<>>
\* The text is not pure JSON, and what it embeds is an action object.
Recoverable(text) ==
    /\ ~loads(text).ok
    /\ loads(Embedded(text)).ok
    /\ loads(Embedded(text)).value.type = "object"
\* The output of the cycle in progress has been through line 214.
Parsed == raw # <<>> /\ apc # "l213"

\* C15: an output that is not pure JSON but embeds an action object between
\* its first "{" and its last "}" is parsed as that object, wherever the
\* prose stands: before the object, after it, or on both sides.
C15_ParseRecovery ==
    Parsed /\ Recoverable(raw) => cmd = loads(Embedded(raw)).value

\* The output is no JSON after recovery, or JSON that is no action object.
BadOutput(text) ==
    LET p == _parse_json_only(text) IN
    \/ ~p.ok
    \/ p.value.type # "object"
    \/ Get(p.value.action) \notin {JStr("final"), JStr("tool")}
    \/ Get(p.value.action) = JStr("tool") /\ Falsy(Get(p.value.tool_name))

\* C16: a model output that is no JSON after recovery, or is JSON that
\* violates the action schema, ends the run with a failure message returned
\* to the caller: no tool is dispatched in that cycle and no exception
\* leaves agent_turn.
C16_FailureIsReturned ==
    Parsed /\ BadOutput(raw) =>
        /\ apc \in {"l221", "returned"}
        /\ apc = "returned" => reply.type = "text"

\* The cycle in progress is for a tool action whose tool_name is a string
\* that is no key of the router.
UnknownToolCycle ==
    /\ cmd # None
    /\ cmd.type = "object"
    /\ Get(cmd.action) = JStr("tool")
    /\ Get(cmd.tool_name).type = "string"
    /\ Get(cmd.tool_name).s \notin DOMAIN TOOL_ROUTER \cup {""}

\* C17: for a tool action whose tool_name is no key of the router, the loop
\* issues no request, takes {ok: false, error: tool not allowed} as the
\* result, appends it as a tool_result and is back at the head of the loop
\* with the run not ended.
C17_UnknownToolContinues ==
    [][UnknownToolCycle =>
          /\ requests' = requests
          /\ reply' = NoReply
          /\ apc \in {"l235", "m113"} => result' = ToolNotAllowed(cmd.tool_name)
          /\ apc \in {"l241", "m119"} =>
                /\ messages'[Len(messages')] =
                      Message("user", ToolResult(cmd.tool_name, ArgsOf(cmd),
                                                 ToolNotAllowed(cmd.tool_name)))
                /\ apc' \in {"l206", "m87"}]_vars

\* The last entry of the conversation is the tool_result of a dispatch that
\* ended in the exception exc.
LastIsCaught(exc) ==
    messages[Len(messages)].role = "user"
    /\ "json" \in DOMAIN messages[Len(messages)].content
    /\ messages[Len(messages)].content.json.tool_result.result = ClientFailed(exc)

\* C18: an exception raised while a tool is dispatched (no connection, a
\* non-2xx status) does not leave the loop: it becomes the result
\* {ok: false, error: str(e)}, which is appended as a tool_result like any
\* other result, and the loop is back at its head with the run not ended,
\* where its next step is a model call while cycles are left.
C18_DispatchErrorFedBack ==
    [][/\ apc = "l235" =>
            /\ apc' = "l241"
            /\ reply' = NoReply
            /\ caught' # NoExc => result' = ClientFailed(caught')
       /\ apc = "l241" =>
            /\ messages' = Append(messages,
                                  Message("user", ToolResult(Get(cmd.tool_name),
                                                             ArgsOf(cmd), result)))
            /\ apc' = "l206"
            /\ reply' = NoReply
       /\ apc = "l206" /\ range_has_next(step) =>
            /\ apc' = "l213"
            /\ model_calls' = model_calls + 1]_vars

\* After a 401 was fed back, the model has been called again.
C18_Witness ==
    /\ apc = "l213"
    /\ step >= 1
    /\ LastIsCaught(Exc("HTTPStatusError", 401))

\* s is the beginning of t.
IsPrefix(s, t) == Len(s) <= Len(t) /\ SubSeq(t, 1, Len(s)) = s

\* C19: agent_turn only appends to the conversation: one entry for the user
\* input, then per tool step the model's action and the tool_result, in this
\* order; a run of k tool steps that ends in a final action leaves the
\* conversation longer by 1 + 2k + 1.
C19_AppendOnly ==
    [][/\ IsPrefix(messages, messages')
       /\ Len(messages') <= Len(messages) + 1
       /\ apc = "idle" /\ apc' # "idle" =>
             messages' = Append(messages, messages'[Len(messages')])
             /\ messages'[Len(messages')].role = "user"
       /\ apc' = "l206" =>
             /\ Len(messages') = Len(Conversation0) + 1 + 2 * step'
             /\ \A k \in 1 .. step' :
                   /\ messages'[Len(Conversation0) + 2 * k].role = "assistant"
                   /\ messages'[Len(Conversation0) + 2 * k + 1].role = "user"
       /\ apc' = "returned" /\ reply'.type \notin {"text", "exception"} =>
             /\ step' = dispatches'
             /\ Len(messages') = Len(Conversation0) + 1 + 2 * dispatches' + 1]_vars

\* A run of two tool steps has ended in a final action.
C19_Witness ==
    /\ apc = "returned"
    /\ reply = JStr("done")
    /\ dispatches = 2
    /\ Len(messages) = Len(Conversation0) + 6

\* Every POST entry of TOOL_ROUTER names a key of _TOOL_MAP.
RouterNamesRegistry ==
    \A n \in DOMAIN TOOL_ROUTER :
        TOOL_ROUTER[n][1] = "POST" => TOOL_ROUTER[n][2] \in TOOL_MAP_KEYS
\* No two router names have the same target.
RouterOneToOne ==
    \A n, m \in DOMAIN TOOL_ROUTER : n # m => TOOL_ROUTER[n] # TOOL_ROUTER[m]
\* Whatever _execute_tool returns for a router name, it is not the listener's
\* unknown-tool outcome (the one with "available").
RouterNeverUnknown ==
    \A n \in DOMAIN TOOL_ROUTER : \A args \in {EmptyObj, JArgs("a1")} :
        \A o \in _execute_tool(JStr(n), args) :
            ~o.raised => "available" \notin DOMAIN o.value

\* C20: every POST entry of TOOL_ROUTER names a key of _TOOL_MAP, no two
\* router names have the same target, and the listener answers no request
\* made for a router name with its unknown-tool outcome.  The router and the
\* registry never change: what holds of them is evaluated before the run.
C20_RouterIntoRegistry ==
    /\ apc = "idle" => RouterNamesRegistry /\ RouterOneToOne /\ RouterNeverUnknown
    /\ apc = "l241" => "available" \notin DOMAIN result

\* The spur gear, whose tool string differs from its public name, was built.
C20_Witness ==
    /\ apc = "l241"
    /\ cmd.tool_name = JStr("fusion_create_spur_gear")
    /\ result.ok

\* ------------------------------------------------------------------------
\* Properties of the threads
\* ------------------------------------------------------------------------
Running == { id \in Ids : hst[id] = "running" }

\* A step of a request-handling thread.
ListenerStep == pc' # pc

\* C21: a handler is invoked only by notify, at line 56 on the host thread,
\* for the task notify has just dequeued; no step of a request-handling thread
\* invokes a handler; and at most one handler is executing, the one of the
\* task notify has in hand.
C21_HostThreadOnly ==
    [][/\ \A id \in Ids :
             calls'[id] # calls[id] =>
                 /\ ~ListenerStep
                 /\ epc = "l53" /\ epc' = "l56"
                 /\ cur'[1] = id
                 /\ calls'[id] = calls[id] + 1
       /\ ListenerStep => hst' = hst
       /\ Cardinality(Running') <= 1
       /\ \A id \in Running' : epc' = "l56" /\ cur'[1] = id]_vars

\* A handler is executing on the host thread while a request thread is
\* blocked in its wait and a further task is queued.
C21_Witness ==
    /\ epc = "l56"
    /\ Running = {cur[1]}
    /\ _task_queue # <<>>
    /\ \E r \in Reqs : pc[r] = "l82" /\ TaskOf(r) # cur[1]

\* The connection serve_forever would take next.
NextConnection(q) == pc[q] = "new" /\ \A p \in Reqs : p < q => pc[p] # "new"

\* C22: while a request is blocked in the wait of line 82, the listener can
\* accept the next connection (and go on to answer it).
C22_AcceptsWhileBlocked ==
    \A r, q \in Reqs :
        pc[r] = "l82" /\ NextConnection(q)
            => ENABLED Accept(q, ServerThreads, RequestInputs)

\* A step of notify.
HostStep == epc' # epc

\* C23: no notify call ends with an exception in flight (every exception
\* raised inside it, by a handler or by the lookup of an entry its submitter
\* has removed, is caught at line 58 or line 66), and the exceptions raised
\* there are of classes `except Exception` catches; no step of notify changes
\* the keys of _task_results; and a notify call delivered with an empty queue
\* that finds it empty at line 53 returns with the queue unchanged and
\* nothing reported.
C23_NotifyNeverRaises ==
    [][/\ epc' = "idle" => inflight' = NoExc
       /\ inflight'.exc \in {"none", "KeyError"}
       /\ out'.exc \in {"none", "Exception", "KeyError"}
       /\ HostStep => _task_results' = _task_results
       /\ epc = "idle" /\ HostStep => _task_queue' = _task_queue
       /\ epc = "l53" /\ snap = <<>> /\ _task_queue = <<>> /\ HostStep =>
            /\ epc' = "idle"
            /\ _task_queue' = <<>>
            /\ diag' = diag]_vars

\* A notify call delivered with an empty queue, after an earlier call has
\* caught the KeyError for a task whose submitter had timed out.
C23_Witness ==
    /\ epc = "l53"
    /\ snap = <<>>
    /\ _task_queue = <<>>
    /\ diag >= 1
    /\ key_errors # {}

\* Request r is inside _run_on_fusion_thread.
InSubmit(r) == pc[r] \in {"l77", "l79", "l80", "l82", "l83", "l84", "l85"}

\* C24: every call of _run_on_fusion_thread returns an outcome, which its
\* caller sends with status 200, whatever the host thread does or fails to
\* do; the thread inside it can always take its next step, and the one at the
\* wait of line 82 can as soon as the event is set or the 30 s are over.
C24_SubmitReturns ==
    /\ \A r \in Reqs : InSubmit(r) ~> (HasReturned(r) /\ response[r].code = 200)
    /\ [](\A r \in Reqs : InSubmit(r) => ENABLED Submit(r))

\* A call that returned the timeout failure while the handler of its task
\* was still executing on the host thread.
C24_Witness ==
    \E r \in Reqs :
        /\ HasReturned(r)
        /\ response[r] = Response(200, TimeoutOutcome)
        /\ hst[TaskOf(r)] = "running"

\* ------------------------------------------------------------------------
\* Properties of termination
\* ------------------------------------------------------------------------
\* C25: a run of agent_turn makes at most 12 model calls and at most one tool
\* dispatch per model call; when it ends, it ends by returning a terminal
\* result (the final message, the parse failure, unknown action, missing
\* tool_name or max steps), not by an exception; and once it has ended there
\* is no further model call or tool dispatch.
C25_EndsInTerminalResult ==
    /\ [](/\ model_calls <= StepBudget
          /\ dispatches <= model_calls
          /\ apc = "returned" => reply.type # "exception")
    /\ [][apc = "returned" => UNCHANGED <<model_calls, dispatches>>]_vars

\* Request r has been answered with the timeout failure.
TimedOut(r) == HasReturned(r) /\ response[r] = Response(200, TimeoutOutcome)

\* C26: no step of a request-handling thread takes a task out of the queue
\* (a step of such a thread leaves the queue as it is or appends one task); a
\* task leaves the queue only as its head, by line 54 of notify, and that
\* step invokes its handler, whether or not the submitter's entry is still
\* in _task_results: notify at line 53 with a task queued does nothing else.
C26_TimeoutLeavesTaskQueued ==
    [][/\ ListenerStep =>
            \/ _task_queue' = _task_queue
            \/ /\ Len(_task_queue') = Len(_task_queue) + 1
               /\ SubSeq(_task_queue', 1, Len(_task_queue)) = _task_queue
       /\ _task_queue' # _task_queue /\ ~ListenerStep =>
            /\ epc = "l53" /\ epc' = "l56"
            /\ _task_queue' = Tail(_task_queue)
       /\ epc = "l53" /\ _task_queue # <<>> /\ HostStep =>
            /\ _task_queue' = Tail(_task_queue)
            /\ cur' = Head(_task_queue)
            /\ hst'[Head(_task_queue)[1]] = "running"
            /\ calls'[Head(_task_queue)[1]] = calls[Head(_task_queue)[1]] + 1]_vars

\* A submitter has been answered with the timeout failure and has removed its
\* entry, its task is still at the head of the queue, and a drain is at line
\* 53, about to take it and invoke its handler.
C26_Witness ==
    \E r \in Reqs :
        /\ TimedOut(r)
        /\ TaskOf(r) \notin _task_results
        /\ calls[TaskOf(r)] = 0
        /\ epc = "l53"
        /\ _task_queue # <<>>
        /\ Head(_task_queue)[1] = TaskOf(r)

\* C27: with every fired event delivered and every handler ending, a task in
\* the queue is eventually taken out of it and its handler invoked.
C27_QueuedIsInvoked ==
    \A id \in Ids :
        (id \in Queued(_task_queue))
            ~> (id \notin Queued(_task_queue) /\ calls[id] >= 1)

\* A drain is ending at line 66, by the KeyError for a task whose submitter
\* had timed out, with tasks never invoked still in the queue.
C27_Witness ==
    /\ epc = "l66"
    /\ _task_queue # <<>>
    /\ \A i \in DOMAIN _task_queue : calls[_task_queue[i][1]] = 0

\* C28: stop() on the host thread, with a request blocked at line 82 for a
\* task the host has not completed, comes to its end: no notify runs while
\* stop() waits in shutdown(), the blocked request's wait expires and the
\* request is answered with the timeout failure, serve_forever then leaves
\* its loop, and stop() returns.
C28_StopReturns ==
    /\ [](spc = "l1101" => epc = "idle")
    /\ \A r \in Reqs : (r \in waiting /\ pc[r] = "l82") ~> TimedOut(r)
    /\ (spc = "l1101") ~> (spc = "returned" /\ ~serving)

\* stop() is waiting in shutdown() and a request that was blocked when it
\* was called has been answered with the timeout failure, its task still in
\* the queue.
C28_Witness ==
    /\ spc = "l1101"
    /\ serving
    /\ \E r \in waiting :
          /\ TimedOut(r)
          /\ wait_end[r].how = "timeout"
          /\ TaskOf(r) \in Queued(_task_queue)

====
